---------------------------- MODULE Spec2Model ----------------------------
(***************************************************************************)
(* A model of picopb (src/src/lib.rs): the cursor-based protobuf reader    *)
(* PbReader and writer PbWriter, with the varint and zigzag codecs.        *)
(*                                                                         *)
(* Numbers keep the widths of the source.  TLC's integers are 32 bits      *)
(* wide, so a u64 or i64 is modelled as the set of the positions of its    *)
(* one bits, a subset of 0..63; i64 is two's complement, bit 63 the sign.  *)
(* usize is taken to be 64 bits wide (a 64-bit target), so "as usize" on a *)
(* u64 changes nothing.  A u8 is an integer in 0..255.  Buffers are        *)
(* sequences of u8; the byte the source calls buf[i] is buf[i + 1] here.   *)
(*                                                                         *)
(* Arithmetic that leaves its range panics in a build with overflow checks *)
(* and wraps in a build without; which build it is, is chosen in Init.  A  *)
(* call that panics has the result "panic" and ends the run.               *)
(***************************************************************************)
EXTENDS Integers, Sequences, FiniteSets

VARIABLES
    build,      \* how the crate was compiled: [overflow_checks : BOOLEAN]
    writer,     \* PbWriter { buf, pos }
    wlog,       \* the calls made on the writer, in order: [op, field, value, res]
    wpre,       \* the writer as it was before the last call
    msg,        \* as_bytes() of a finished writer, kept as the payload for the next
    reader,     \* PbReader { buf, pos }
    rlast,      \* the last call on the reader: [op, res, val, pre], pre the reader before
    child,      \* the PbReader returned by next_embedded_message, while it is borrowed
    clast,      \* the last call on the child: [op, res, val, pre, parent_pos]
    phase       \* "write": the writer is in use; "read": its output is borrowed by
                \* the reader; "aborted": a call panicked

vars == <<build, writer, wlog, wpre, msg, reader, rlast, child, clast, phase>>

---------------------------------------------------------------------------
(* Fixed-width arithmetic on bit sets *)

U64Bits == 64
U8Bits == 8

Pow2(n) == 2 ^ n

\* a small natural number as a 64-bit word
FromNat(n) == {i \in 0..30 : (n \div Pow2(i)) % 2 = 1}

RECURSIVE SumBits(_)
SumBits(s) == IF s = {} THEN 0
              ELSE LET i == CHOOSE j \in s : TRUE IN Pow2(i) + SumBits(s \ {i})

\* a word that fits 30 bits as a natural number
IsSmall(v) == \A i \in v : i < 30
ToNat(v) == SumBits(v)

\* v > n and v <= n for a word v and a small natural n
GtNat(v, n) == IF IsSmall(v) THEN ToNat(v) > n ELSE TRUE

\* u64 << k and u64 >> k for k < 64: bits shifted out are lost
Shl(v, k) == {i + k : i \in {j \in v : j + k < U64Bits}}
Shr(v, k) == {i - k : i \in {j \in v : j >= k}}
\* i64 >> k: the sign bit is copied in
Sar(v, k) == Shr(v, k) \cup (IF (U64Bits - 1) \in v THEN (U64Bits - k)..(U64Bits - 1) ELSE {})
Xor(a, b) == (a \ b) \cup (b \ a)
Not(a) == (0..(U64Bits - 1)) \ a

\* u64::checked_shl: None only when the shift amount is not below the width
checked_shl(v, rhs) ==
    IF rhs < U64Bits THEN [some |-> TRUE, val |-> Shl(v, rhs)]
    ELSE [some |-> FALSE, val |-> {}]

\* the carry into bit i of a + b: some lower bit generates a carry (both
\* operands have it) and every bit between propagates it (one operand has it)
Carry(a, b, i) ==
    \E j \in a \cap b : j < i /\ (j + 1)..(i - 1) \subseteq a \cup b

\* a + b modulo 2^64
WrapAdd(a, b) ==
    {i \in 0..(U64Bits - 1) : ((i \in a) # (i \in b)) # Carry(a, b, i)}

\* u64 + u64 leaves the range of u64
AddOverflowsU(a, b) == Carry(a, b, U64Bits)
\* i64 + i64 leaves the range of i64
AddOverflowsI(a, b) == Carry(a, b, U64Bits) # Carry(a, b, U64Bits - 1)

\* the result of an arithmetic operator of the source: a build with overflow
\* checks panics where the value leaves the range, a build without wraps
Arith(val, overflows) ==
    [val |-> val, wrapped |-> overflows, panic |-> overflows /\ build.overflow_checks]

\* i64 negation: -MIN leaves the range
I64Min == {U64Bits - 1}
Neg(a) == Arith(WrapAdd(Not(a), FromNat(1)), a = I64Min)


---------------------------------------------------------------------------
(* Wire types and errors *)

\* enum WireType, by discriminant
WireType == [Varint |-> 0, Bit64 |-> 1, Bytes |-> 2, Bit32 |-> 5]

WireType_from_u8(b) ==
    CASE b = 0 -> [some |-> TRUE, val |-> "Varint"]
      [] b = 1 -> [some |-> TRUE, val |-> "Bit64"]
      [] b = 2 -> [some |-> TRUE, val |-> "Bytes"]
      [] b = 5 -> [some |-> TRUE, val |-> "Bit32"]
      [] OTHER -> [some |-> FALSE, val |-> "none"]

\* enum Error, and "panic" for a call that does not return
Error == {"Eof", "UnexpectedEof", "InvalidWireType", "InvalidFieldNumber",
          "VarintOverflow", "InvalidUtf8String", "BufferOverflow"}

---------------------------------------------------------------------------
(* PbReader.  Every method is an operator from the reader r = [buf, pos]   *)
(* to [res, val, r]: the result ("Ok", an Error or "panic"), the value     *)
(* returned with Ok, and the reader after the call.                        *)

PbReader_new(buf) == [buf |-> buf, pos |-> 0]

PbReader_is_eof(r) == r.pos = Len(r.buf)

has_next(r) == r.pos < Len(r.buf)

peek_next_u8(r) ==
    IF has_next(r) THEN [some |-> TRUE, val |-> r.buf[r.pos + 1]]
    ELSE [some |-> FALSE, val |-> 0]

next_u8(r) ==
    IF has_next(r)
    THEN [some |-> TRUE, val |-> r.buf[r.pos + 1], r |-> [r EXCEPT !.pos = r.pos + 1]]
    ELSE [some |-> FALSE, val |-> 0, r |-> r]

\* the match on WireType::from_u8(key & 0b111) of peek_next_key and next_key
decode_key(key, r) ==
    LET wt == WireType_from_u8(key % 8) IN
    IF wt.some THEN [res |-> "Ok", val |-> <<key \div 8, wt.val>>, r |-> r]
    ELSE [res |-> "InvalidWireType", val |-> <<key % 8>>, r |-> r]

peek_next_key(r) ==
    LET k == peek_next_u8(r) IN
    IF ~k.some THEN [res |-> "Eof", val |-> <<>>, r |-> r]
    ELSE decode_key(k.val, r)

next_key(r) ==
    LET k == next_u8(r) IN
    IF ~k.some THEN [res |-> "Eof", val |-> <<>>, r |-> k.r]
    ELSE decode_key(k.val, k.r)

\* next_fixed32 and next_fixed64, n = 4 and 8
next_fixed(r, n) ==
    IF r.pos + n > Len(r.buf) THEN [res |-> "UnexpectedEof", val |-> <<>>, r |-> r]
    ELSE [res |-> "Ok", val |-> SubSeq(r.buf, r.pos + 1, r.pos + n),
          r |-> [r EXCEPT !.pos = r.pos + n]]

next_fixed32(r) == next_fixed(r, 4)
next_fixed64(r) == next_fixed(r, 8)

\* the u8 b & 0x7f as u64
Low7(b) == FromNat(b % 128)

\* the loop of next_varint, entered with the accumulated result and bitpos
RECURSIVE next_varint_loop(_, _, _)
next_varint_loop(r, result, bitpos) ==
    LET b == next_u8(r) IN
    IF ~b.some THEN [res |-> "UnexpectedEof", val |-> {}, r |-> b.r]
    ELSE LET tmp == checked_shl(Low7(b.val), bitpos) IN
         IF ~tmp.some THEN [res |-> "VarintOverflow", val |-> {}, r |-> b.r]
         ELSE LET sum == Arith(WrapAdd(result, tmp.val), AddOverflowsU(result, tmp.val)) IN
              IF sum.panic THEN [res |-> "panic", val |-> {}, r |-> b.r]
              ELSE IF b.val < 128 THEN [res |-> "Ok", val |-> sum.val, r |-> b.r]
              ELSE next_varint_loop(b.r, sum.val, bitpos + 7)

next_varint(r) == next_varint_loop(r, {}, 0)

next_bytes(r) ==
    LET v == next_varint(r) IN
    IF v.res # "Ok" THEN [res |-> v.res, val |-> <<>>, r |-> v.r]
    ELSE LET len == v.val
             pos == FromNat(v.r.pos)
             end == Arith(WrapAdd(pos, len), AddOverflowsU(pos, len))
         IN  IF end.panic THEN [res |-> "panic", val |-> <<>>, r |-> v.r]
             ELSE IF GtNat(end.val, Len(v.r.buf))
                  THEN [res |-> "UnexpectedEof", val |-> <<>>, r |-> v.r]
             \* &self.buf[self.pos..self.pos + len] with the end before the start
             ELSE IF ToNat(end.val) < v.r.pos
                  THEN [res |-> "panic", val |-> <<>>, r |-> v.r]
             ELSE [res |-> "Ok", val |-> SubSeq(v.r.buf, v.r.pos + 1, ToNat(end.val)),
                   r |-> [v.r EXCEPT !.pos = ToNat(end.val)]]

\* str::from_utf8 on the buffers of this model: ASCII is valid, and since no
\* buffer holds a lead byte (0xC2..0xF4) a byte from 0x80 on makes the text
\* invalid
from_utf8_ok(raw) == \A i \in 1..Len(raw) : raw[i] < 128

next_string(r) ==
    LET b == next_bytes(r) IN
    IF b.res # "Ok" THEN b
    ELSE IF from_utf8_ok(b.val) THEN b
    ELSE [res |-> "InvalidUtf8String", val |-> <<>>, r |-> b.r]

\* the value is the child reader
next_embedded_message(r) ==
    LET b == next_bytes(r) IN
    IF b.res # "Ok" THEN b
    ELSE [res |-> "Ok", val |-> PbReader_new(b.val), r |-> b.r]

varint_to_svarint(n) ==
    IF 0 \in n
    THEN LET h == Shr(n, 1)
             inc == Arith(WrapAdd(h, FromNat(1)), AddOverflowsI(h, FromNat(1)))
             neg == Neg(inc.val)
         IN  [val |-> neg.val, wrapped |-> inc.wrapped \/ neg.wrapped,
              panic |-> inc.panic \/ neg.panic]
    ELSE [val |-> Shr(n, 1), wrapped |-> FALSE, panic |-> FALSE]

svarint_to_varint(n) == Xor(Shl(n, 1), Sar(n, U64Bits - 1))

next_svarint(r) ==
    LET v == next_varint(r) IN
    IF v.res # "Ok" THEN v
    ELSE LET s == varint_to_svarint(v.val) IN
         IF s.panic THEN [res |-> "panic", val |-> {}, r |-> v.r]
         ELSE [res |-> "Ok", val |-> s.val, r |-> v.r]

skip_next_field(r) ==
    LET k == next_key(r) IN
    IF k.res # "Ok" THEN k
    ELSE LET p == CASE k.val[2] = "Varint" -> next_varint(k.r)
                    [] k.val[2] = "Bytes" -> next_bytes(k.r)
                    [] k.val[2] = "Bit32" -> next_fixed32(k.r)
                    [] k.val[2] = "Bit64" -> next_fixed64(k.r)
         IN  [res |-> p.res, val |-> <<>>, r |-> p.r]

---------------------------------------------------------------------------
(* PbWriter.  Every method is an operator from the writer w = [buf, pos]   *)
(* to [res, w]: the result and the writer after the call.                  *)

PbWriter_new(buf) == [buf |-> buf, pos |-> 0]

PbWriter_is_eof(w) == w.pos = Len(w.buf)

as_bytes(w) == SubSeq(w.buf, 1, w.pos)

write_u8(w, val) ==
    IF w.pos < Len(w.buf)
    THEN [res |-> "Ok", w |-> [buf |-> [w.buf EXCEPT ![w.pos + 1] = val], pos |-> w.pos + 1]]
    ELSE [res |-> "BufferOverflow", w |-> w]

write_bytes(w, val) ==
    IF w.pos + Len(val) < Len(w.buf)
    THEN [res |-> "Ok",
          w |-> [buf |-> [i \in 1..Len(w.buf) |->
                            IF i > w.pos /\ i <= w.pos + Len(val)
                            THEN val[i - w.pos] ELSE w.buf[i]],
                 pos |-> w.pos + Len(val)]]
    ELSE [res |-> "BufferOverflow", w |-> w]

\* a write_varint that leaves the continuation bit of the last byte set
keep_last_msb(w) == [res |-> "Ok", w |-> w]

\* *self.last_u8_mut() &= 0x7f; buf[pos - 1] with pos = 0 is out of bounds
clear_last_msb(w) ==
    IF w.pos = 0 THEN [res |-> "panic", w |-> w]
    ELSE [res |-> "Ok", w |-> [w EXCEPT !.buf[w.pos] = w.buf[w.pos] % 128]]

\* ((value & 0x7f) as u8) | 0x80
GroupByte(value) == ToNat(value \cap (0..6)) + 128

\* a write_varint that does not restore the position when a byte does not fit
RECURSIVE write_varint_loop_no_rollback(_, _, _)
write_varint_loop_no_rollback(w, value, fallback_pos) ==
    IF value # {}
    THEN LET b == write_u8(w, GroupByte(value)) IN
         IF b.res # "Ok" THEN b
         ELSE write_varint_loop_no_rollback(b.w, Shr(value, 7), fallback_pos)
    ELSE clear_last_msb(w)

\* the while loop of write_varint and what follows it
RECURSIVE write_varint_loop(_, _, _)
write_varint_loop(w, value, fallback_pos) ==
    IF value # {}
    THEN LET b == write_u8(w, GroupByte(value)) IN
         IF b.res # "Ok" THEN [res |-> b.res, w |-> [b.w EXCEPT !.pos = fallback_pos]]
         ELSE write_varint_loop(b.w, Shr(value, 7), fallback_pos)
    ELSE clear_last_msb(w)

write_varint(w, value) ==
    LET fallback_pos == w.pos IN
    IF value = {} THEN write_u8(w, 0)
    ELSE write_varint_loop(w, value, fallback_pos)

\* u8::checked_shl: None only when the shift amount is not below the width
u8_checked_shl(b, rhs) ==
    IF rhs < U8Bits THEN [some |-> TRUE, val |-> (b * Pow2(rhs)) % Pow2(U8Bits)]
    ELSE [some |-> FALSE, val |-> 0]

\* field_number.checked_shl(3).ok_or(InvalidFieldNumber)? + wire_type as u8
field_key(field_number, wire_type) ==
    LET sh == u8_checked_shl(field_number, 3) IN
    IF ~sh.some THEN [res |-> "InvalidFieldNumber", val |-> 0]
    ELSE LET sum == sh.val + WireType[wire_type] IN
         IF sum < Pow2(U8Bits) THEN [res |-> "Ok", val |-> sum]
         ELSE IF build.overflow_checks THEN [res |-> "panic", val |-> 0]
         ELSE [res |-> "Ok", val |-> sum % Pow2(U8Bits)]

encode_varint_field(w, field_number, value) ==
    LET key == field_key(field_number, "Varint") IN
    IF key.res # "Ok" THEN [res |-> key.res, w |-> w]
    ELSE LET k == write_u8(w, key.val) IN
         IF k.res # "Ok" THEN k
         ELSE write_varint(k.w, value)

encode_svarint_field(w, field_number, value) ==
    encode_varint_field(w, field_number, svarint_to_varint(value))

encode_bytes_field(w, field_number, value) ==
    LET key == field_key(field_number, "Bytes") IN
    IF key.res # "Ok" THEN [res |-> key.res, w |-> w]
    ELSE LET k == write_u8(w, key.val) IN
         IF k.res # "Ok" THEN k
         ELSE LET l == write_varint(k.w, FromNat(Len(value))) IN
              IF l.res # "Ok" THEN l
              ELSE write_bytes(l.w, value)

encode_string_field(w, field_number, value) ==
    encode_bytes_field(w, field_number, value)

---------------------------------------------------------------------------
(* Inputs *)

\* the largest buffer a writer is given, and the most calls made on writers
MaxCap == 12
MaxCalls == 2

U64Max == 0..(U64Bits - 1)
I64Max == 0..(U64Bits - 2)

\* u64 arguments: 0, 1, 42, 127, 128, 2^63, 2^64 - 1
Values == {FromNat(0), FromNat(1), FromNat(42), FromNat(127), FromNat(128), I64Min, U64Max}

\* i64 arguments: 0, 1, -1, the maximum and the minimum
SValues == {FromNat(0), FromNat(1), U64Max, I64Max, I64Min}

\* u8 field numbers, 31 the largest a key byte holds
FieldNumbers == {1, 3, 31, 33}

\* byte strings: empty, "hi", and one that is not UTF-8
Payloads == {<<>>, <<104, 105>>, <<255, 254>>}
Strings == {<<>>, <<104, 105>>}

Zeroes(n) == [i \in 1..n |-> 0]

NoCall == [op |-> "none", field |-> 0, value |-> {}, res |-> "Ok"]
NoMsg == [some |-> FALSE, bytes |-> <<>>, log |-> <<>>]
NoReader == [live |-> FALSE, buf |-> <<>>, pos |-> 0]
NoRead == [op |-> "none", res |-> "Ok", val |-> <<>>, pre |-> NoReader]
NoChildRead == [op |-> "none", res |-> "Ok", val |-> <<>>, pre |-> NoReader, parent_pos |-> 0]

Live(r) == [live |-> TRUE, buf |-> r.buf, pos |-> r.pos]

wlast == IF wlog = <<>> THEN NoCall ELSE wlog[Len(wlog)]

---------------------------------------------------------------------------
(* Actions: one per public method, on the writer, the reader and the child *)

\* the caller's bookkeeping around a writer call whose outcome is out
WriterCall(op, field, value, out) ==
    /\ Len(msg.log) + Len(wlog) < MaxCalls
    /\ writer' = out.w
    /\ wpre' = writer
    /\ wlog' = Append(wlog, [op |-> op, field |-> field, value |-> value, res |-> out.res])
    /\ phase' = IF out.res = "panic" THEN "aborted" ELSE phase
    /\ UNCHANGED <<build, msg, reader, rlast, child, clast>>

WriteVarint(value) ==
    /\ phase = "write"
    /\ WriterCall("write_varint", 0, value, write_varint(writer, value))

EncodeVarintField(field_number, value) ==
    /\ phase = "write"
    /\ WriterCall("encode_varint_field", field_number, value,
               encode_varint_field(writer, field_number, value))

EncodeSvarintField(field_number, value) ==
    /\ phase = "write"
    /\ WriterCall("encode_svarint_field", field_number, value,
               encode_svarint_field(writer, field_number, value))

EncodeBytesField(field_number, value) ==
    /\ phase = "write"
    /\ WriterCall("encode_bytes_field", field_number, value,
               encode_bytes_field(writer, field_number, value))

EncodeStringField(field_number, value) ==
    /\ phase = "write"
    /\ WriterCall("encode_string_field", field_number, value,
               encode_string_field(writer, field_number, value))

\* encode_bytes_field with the finished message as the value
EncodeMessageField(field_number) ==
    /\ phase = "write"
    /\ msg.some
    /\ WriterCall("encode_bytes_field", field_number, msg.bytes,
                  encode_bytes_field(writer, field_number, msg.bytes))

\* let m = w.as_bytes(); then a new writer, on a buffer of the same size, for
\* the message that embeds m
Finish ==
    /\ phase = "write"
    /\ ~msg.some
    /\ wlog # <<>>
    /\ msg' = [some |-> TRUE, bytes |-> as_bytes(writer), log |-> wlog]
    /\ writer' = PbWriter_new(Zeroes(Len(writer.buf)))
    /\ wpre' = writer'
    /\ wlog' = <<>>
    /\ UNCHANGED <<build, reader, rlast, child, clast, phase>>

\* PbReader::new(w.as_bytes())
ReadBack ==
    /\ phase = "write"
    /\ reader' = Live(PbReader_new(as_bytes(writer)))
    /\ phase' = "read"
    /\ UNCHANGED <<build, writer, wlog, wpre, msg, rlast, child, clast>>

\* the caller's bookkeeping around a reader call whose outcome is out; a call
\* on the reader ends the borrow a child reader holds
ReaderCall(op, out) ==
    /\ reader' = out.r
    /\ rlast' = [op |-> op, res |-> out.res, val |-> out.val, pre |-> reader]
    /\ child' = IF op = "next_embedded_message" /\ out.res = "Ok"
                THEN Live(out.val) ELSE NoReader
    /\ clast' = NoChildRead
    /\ phase' = IF out.res = "panic" THEN "aborted" ELSE phase
    /\ UNCHANGED <<build, writer, wlog, wpre, msg>>

PeekNextKey ==
    /\ phase = "read"
    /\ ReaderCall("peek_next_key", peek_next_key(reader))

NextKey ==
    /\ phase = "read"
    /\ ReaderCall("next_key", next_key(reader))

SkipNextField ==
    /\ phase = "read"
    /\ ReaderCall("skip_next_field", skip_next_field(reader))

NextFixed32 ==
    /\ phase = "read"
    /\ ReaderCall("next_fixed32", next_fixed32(reader))

NextFixed64 ==
    /\ phase = "read"
    /\ ReaderCall("next_fixed64", next_fixed64(reader))

NextVarint ==
    /\ phase = "read"
    /\ ReaderCall("next_varint", next_varint(reader))

NextBytes ==
    /\ phase = "read"
    /\ ReaderCall("next_bytes", next_bytes(reader))

NextString ==
    /\ phase = "read"
    /\ ReaderCall("next_string", next_string(reader))

NextEmbeddedMessage ==
    /\ phase = "read"
    /\ ReaderCall("next_embedded_message", next_embedded_message(reader))

NextSvarint ==
    /\ phase = "read"
    /\ ReaderCall("next_svarint", next_svarint(reader))

ChildCall(op, out) ==
    /\ child' = out.r
    /\ clast' = [op |-> op, res |-> out.res, val |-> out.val, pre |-> child,
                 parent_pos |-> reader.pos]
    /\ phase' = IF out.res = "panic" THEN "aborted" ELSE phase
    /\ UNCHANGED <<build, writer, wlog, wpre, msg, reader, rlast>>

ChildNextKey ==
    /\ phase = "read" /\ child.live
    /\ ChildCall("next_key", next_key(child))

ChildNextVarint ==
    /\ phase = "read" /\ child.live
    /\ ChildCall("next_varint", next_varint(child))

ChildSkipNextField ==
    /\ phase = "read" /\ child.live
    /\ ChildCall("skip_next_field", skip_next_field(child))

---------------------------------------------------------------------------
(* Specifications *)

Builds == [overflow_checks : BOOLEAN]

InitWriter(caps) ==
    /\ build \in Builds
    /\ \E cap \in caps : writer = PbWriter_new(Zeroes(cap))
    /\ wpre = writer
    /\ wlog = <<>>
    /\ msg = NoMsg
    /\ reader = NoReader
    /\ rlast = NoRead
    /\ child = NoReader
    /\ clast = NoChildRead
    /\ phase = "write"

\* SpecVarint: raw varints written into a buffer of any size up to MaxCap,
\* behind bytes fields that succeeded or failed, and read back
InitVarint == InitWriter(0..MaxCap)

NextVarintSpec ==
    \/ \E v \in Values : WriteVarint(v)
    \/ \E v \in Payloads : EncodeBytesField(1, v)
    \/ ReadBack
    \/ NextVarint

SpecVarint == InitVarint /\ [][NextVarintSpec]_vars

\* SpecFields: the writer alone, on a buffer of any size up to MaxCap
InitFields == InitWriter(0..MaxCap)

NextFields ==
    \/ \E v \in Values : WriteVarint(v)
    \/ \E f \in FieldNumbers, v \in Values : EncodeVarintField(f, v)
    \/ \E f \in FieldNumbers, v \in SValues : EncodeSvarintField(f, v)
    \/ \E f \in FieldNumbers, v \in Payloads : EncodeBytesField(f, v)
    \/ \E f \in FieldNumbers, v \in Strings : EncodeStringField(f, v)

SpecFields == InitFields /\ [][NextFields]_vars

\* Spec: fields written into a buffer of MaxCap bytes, a finished message
\* embedded in a bytes field of the next, and the output read back
Init == InitWriter({MaxCap})

Next ==
    \/ \E f \in {3, 33}, v \in {FromNat(42), U64Max} : EncodeVarintField(f, v)
    \/ \E f \in {3, 33}, v \in SValues : EncodeSvarintField(f, v)
    \/ \E f \in {3, 33}, v \in {<<>>, <<255, 254>>} : EncodeBytesField(f, v)
    \/ \E f \in {3, 33} : EncodeMessageField(f)
    \/ \E f \in {3, 33}, v \in {<<104, 105>>} : EncodeStringField(f, v)
    \/ Finish
    \/ ReadBack
    \/ PeekNextKey
    \/ NextKey
    \/ SkipNextField
    \/ NextFixed32
    \/ NextFixed64
    \/ NextVarint
    \/ NextBytes
    \/ NextString
    \/ NextEmbeddedMessage
    \/ NextSvarint
    \/ ChildNextKey
    \/ ChildNextVarint
    \/ ChildSkipNextField

Spec == Init /\ [][Next]_vars

\* SpecReader: the reader on buffers that no writer of this crate produced
Rep(n, b) == [i \in 1..n |-> b]

RawBuffers == {
    <<>>,
    <<7>>,                                \* a key with wire type 7
    <<8>>,                                \* field 1, Varint, and no value
    <<8, 42>>,
    <<8, 128>>,                           \* a varint that ends in a continuation byte
    <<13, 1, 2, 3>>,                      \* field 1, Bit32, three bytes
    <<13, 1, 2, 3, 4>>,
    <<9, 1, 2, 3, 4, 5, 6, 7>>,           \* field 1, Bit64, seven bytes
    <<9, 1, 2, 3, 4, 5, 6, 7, 8>>,
    <<18, 2, 104, 105>>,                  \* field 2, Bytes, "hi"
    <<18, 2, 255, 254>>,                  \* not UTF-8
    <<18, 5, 104, 105>>,                  \* length 5, two bytes left
    <<26, 2, 8, 42, 8, 1>>,               \* field 3, the message (1: 42), then (1: 1)
    <<18>> \o Rep(9, 255) \o <<1>>,       \* length 2^64 - 1
    <<18>> \o Rep(9, 128) \o <<1>>,       \* length 2^63
    <<8>> \o Rep(9, 255) \o <<1>>,        \* the varint 2^64 - 1
    <<8>> \o Rep(9, 128) \o <<2>>,        \* ten bytes, the value 2^64
    <<8>> \o Rep(9, 255) \o <<127>>,      \* ten bytes, the value 2^70 - 1
    <<8>> \o Rep(10, 128) \o <<1>>,       \* eleven bytes
    <<8>> \o Rep(10, 128) }               \* ten continuation bytes and the end

InitReader ==
    /\ build \in Builds
    /\ writer = PbWriter_new(<<>>)
    /\ wpre = writer
    /\ wlog = <<>>
    /\ msg = NoMsg
    /\ \E raw \in RawBuffers : reader = Live(PbReader_new(raw))
    /\ rlast = NoRead
    /\ child = NoReader
    /\ clast = NoChildRead
    /\ phase = "read"

NextReader ==
    \/ PeekNextKey
    \/ NextKey
    \/ SkipNextField
    \/ NextFixed32
    \/ NextFixed64
    \/ NextVarint
    \/ NextBytes
    \/ NextString
    \/ NextEmbeddedMessage
    \/ NextSvarint
    \/ ChildNextKey
    \/ ChildNextVarint
    \/ ChildSkipNextField

SpecReader == InitReader /\ [][NextReader]_vars

---------------------------------------------------------------------------
(* Properties of the raw varint codec (SpecVarint) *)

\* the number of 7-bit groups of a u64: 1 for 0, else up to its highest one bit
NumGroups(v) ==
    IF v = {} THEN 1
    ELSE ((CHOOSE i \in v : \A j \in v : j <= i) \div 7) + 1

\* the write_varint calls that returned Ok, and where the k-th one's bytes end
OkCalls == SelectSeq(wlog, LAMBDA c : c.res = "Ok")
OnlyVarints == \A i \in 1..Len(wlog) : wlog[i].op = "write_varint"

RECURSIVE Offset(_)
Offset(k) == IF k = 0 THEN 0 ELSE Offset(k - 1) + NumGroups(OkCalls[k].value)

\* C9: write_varint is atomic with respect to the cursor.  When it returns
\* BufferOverflow the position, and so as_bytes(), is what it was before the
\* call; when it returns Ok the position has advanced by the number of 7-bit
\* groups of the value (1 for the value 0).  It returns nothing else.
C9_WriteVarintAtomic ==
    wlast.op = "write_varint" =>
        /\ wlast.res \in {"Ok", "BufferOverflow"}
        /\ wlast.res = "BufferOverflow" =>
              /\ writer.pos = wpre.pos
              /\ as_bytes(writer) = as_bytes(wpre)
        /\ wlast.res = "Ok" =>
              /\ writer.pos = wpre.pos + NumGroups(wlast.value)
              /\ SubSeq(as_bytes(writer), 1, wpre.pos) = as_bytes(wpre)

\* a write_varint that ran out of buffer after it had written some groups
\* behind bytes committed earlier
C9_Witness ==
    /\ wlast.op = "write_varint"
    /\ wlast.res = "BufferOverflow"
    /\ wpre.pos > 0
    /\ writer.buf # wpre.buf

\* C5: varint round trip.  write_varint(v) succeeds when the buffer has room
\* for the groups of v, and a reader over as_bytes() of a writer that made
\* only write_varint calls returns, from the place where the k-th written
\* value starts, exactly that value, stops where it ends, and is at the end
\* of the buffer after the last one.
C5_VarintRoundTrip ==
    /\ (wlast.op = "write_varint" /\ NumGroups(wlast.value) <= Len(wpre.buf) - wpre.pos)
          => wlast.res = "Ok"
    /\ (phase # "write" /\ OnlyVarints /\ rlast.op = "next_varint") =>
          \A k \in 1..Len(OkCalls) :
              rlast.pre.pos = Offset(k - 1) =>
                  /\ rlast.res = "Ok"
                  /\ rlast.val = OkCalls[k].value
                  /\ reader.pos = Offset(k)
                  /\ (k = Len(OkCalls) => PbReader_is_eof(reader))

\* 2^64 - 1 written as ten bytes and read back, the reader then at the end
C5_Witness ==
    /\ phase = "read"
    /\ OnlyVarints
    /\ Len(reader.buf) = 10
    /\ rlast.op = "next_varint"
    /\ rlast.res = "Ok"
    /\ rlast.val = U64Max
    /\ PbReader_is_eof(reader)

---------------------------------------------------------------------------
(* Properties of the field encoders (SpecFields) *)

FieldOps == {"encode_varint_field", "encode_svarint_field",
             "encode_bytes_field", "encode_string_field"}

\* C1: a field-encoding call that returns BufferOverflow commits nothing:
\* as_bytes() after the call is as_bytes() before it.
C1_FailedFieldCommitsNothing ==
    (wlast.op \in FieldOps /\ wlast.res = "BufferOverflow") =>
        as_bytes(writer) = as_bytes(wpre)

\* C3: a field-encoding call with a field number above 31, which shifted left
\* by 3 does not fit the key byte, returns InvalidFieldNumber and writes
\* nothing.
C3_InvalidFieldNumber ==
    (wlast.op \in FieldOps /\ wlast.field > 31) =>
        /\ wlast.res = "InvalidFieldNumber"
        /\ writer = wpre

\* C4: encode_bytes_field with a valid field number succeeds whenever the key
\* byte, the varint length prefix and the payload fit in the remaining
\* capacity, the exact fit and the empty payload included.
C4_BytesFieldFits ==
    (/\ wlast.op = "encode_bytes_field"
     /\ wlast.field <= 31
     /\ 1 + NumGroups(FromNat(Len(wlast.value))) + Len(wlast.value)
           <= Len(wpre.buf) - wpre.pos)
        => wlast.res = "Ok"

---------------------------------------------------------------------------
(* Properties of the round trip through writer and reader (Spec) *)

\* the reader is over a message that is exactly one successful call
OneCall(log, op) == Len(log) = 1 /\ log[1].op = op /\ log[1].res = "Ok"

\* C8: zigzag round trip.  A value written by encode_svarint_field is returned
\* by next_svarint, for every i64 and the minimum and maximum among them, with
\* no arithmetic overflow on the way; and 0, -1, 1 are encoded as 0, 1, 2.
C8_ZigzagRoundTrip ==
    /\ svarint_to_varint(FromNat(0)) = FromNat(0)
    /\ svarint_to_varint(U64Max) = FromNat(1)
    /\ svarint_to_varint(FromNat(1)) = FromNat(2)
    /\ (/\ phase # "write"
        /\ OneCall(wlog, "encode_svarint_field")
        /\ rlast.op = "next_svarint"
        /\ rlast.pre.pos = 1)
          => /\ rlast.res = "Ok"
             /\ rlast.val = wlast.value
             /\ ~varint_to_svarint(svarint_to_varint(wlast.value)).wrapped

\* C10: field round trip.  After a successful encode_varint_field(f, v) a
\* reader over the output yields the key (f, Varint) and the value v.  After a
\* successful encode_bytes_field(g, m), m such an output, the reader yields
\* the key (g, Bytes) and next_embedded_message a reader over exactly m, which
\* yields (f, Varint) and v; the parent is then at the end of the span and
\* calls on the child do not move it.
C10_FieldRoundTrip ==
    /\ (phase # "write" /\ ~msg.some /\ OneCall(wlog, "encode_varint_field")) =>
          /\ (rlast.op = "next_key" /\ rlast.pre.pos = 0) =>
                rlast.res = "Ok" /\ rlast.val = <<wlast.field, "Varint">>
          /\ (rlast.op = "next_varint" /\ rlast.pre.pos = 1) =>
                rlast.res = "Ok" /\ rlast.val = wlast.value
    /\ (/\ phase # "write"
        /\ msg.some
        /\ OneCall(msg.log, "encode_varint_field")
        /\ OneCall(wlog, "encode_bytes_field")
        /\ wlast.value = msg.bytes) =>
          /\ (rlast.op = "next_key" /\ rlast.pre.pos = 0) =>
                rlast.res = "Ok" /\ rlast.val = <<wlast.field, "Bytes">>
          /\ (rlast.op = "next_embedded_message" /\ rlast.pre.pos = 1) =>
                /\ rlast.res = "Ok"
                /\ rlast.val.buf = msg.bytes
                /\ reader.pos = Len(reader.buf)
                /\ (clast.op = "next_key" /\ clast.pre.pos = 0) =>
                      clast.res = "Ok" /\ clast.val = <<msg.log[1].field, "Varint">>
                /\ (clast.op = "next_varint" /\ clast.pre.pos = 1) =>
                      clast.res = "Ok" /\ clast.val = msg.log[1].value
                /\ clast.op # "none" => reader.pos = clast.parent_pos

---------------------------------------------------------------------------
(* Properties of the reader on arbitrary input (SpecReader) *)

\* the bytes of the buffer of r from its position on
Rest(r) == SubSeq(r.buf, r.pos + 1, Len(r.buf))

\* the bytes from the position of r on hold a terminated varint: n bytes with
\* the continuation bit and one without
Terminated(r, n) ==
    /\ n < Len(Rest(r))
    /\ \A i \in 1..n : Rest(r)[i] >= 128
    /\ Rest(r)[n + 1] < 128

\* the value of that varint has a one bit at position 64 or above
NeedsMoreThan64(r, n) ==
    \E i \in 1..(n + 1) : \E j \in Low7(Rest(r)[i]) : 7 * (i - 1) + j >= U64Bits

\* next_bytes on r finds a length prefix that exceeds what is left behind it
LengthExceedsRest(r) ==
    LET v == next_varint(r) IN
    v.res = "Ok" /\ GtNat(v.val, Len(v.r.buf) - v.r.pos)

\* C2: next_bytes whose length prefix exceeds the remaining bytes returns
\* UnexpectedEof, for every length up to the maximum of the machine word; it
\* does not panic and does not leave the position beyond the buffer.
C2_NextBytesBounds ==
    (rlast.op = "next_bytes" /\ LengthExceedsRest(rlast.pre)) =>
        /\ rlast.res = "UnexpectedEof"
        /\ reader.pos <= Len(reader.buf)

\* C6: next_varint returns VarintOverflow for every terminated varint whose
\* 7-bit groups carry a value that needs more than 64 bits; it never returns
\* Ok with the high bits dropped, and it never panics while accumulating.
C6_VarintOverflow ==
    rlast.op = "next_varint" =>
        /\ rlast.res # "panic"
        /\ \A n \in 0..Len(Rest(rlast.pre)) :
              (Terminated(rlast.pre, n) /\ NeedsMoreThan64(rlast.pre, n))
                  => rlast.res = "VarintOverflow"

\* a field value that the buffer of r ends in the middle of: a varint of at
\* most ten bytes with no last byte, a fixed field with too few bytes, a
\* length that exceeds what is left
TruncatedVarint(r) ==
    Len(Rest(r)) <= 10 /\ \A i \in 1..Len(Rest(r)) : Rest(r)[i] >= 128

Underrun(op, r) ==
    CASE op \in {"next_varint", "next_svarint"} -> TruncatedVarint(r)
      [] op = "next_fixed32" -> Len(Rest(r)) < 4
      [] op = "next_fixed64" -> Len(Rest(r)) < 8
      [] op \in {"next_bytes", "next_string", "next_embedded_message"} ->
            TruncatedVarint(r) \/ LengthExceedsRest(r)
      [] OTHER -> FALSE

ValueOp(wire_type) ==
    CASE wire_type = "Varint" -> "next_varint"
      [] wire_type = "Bytes" -> "next_bytes"
      [] wire_type = "Bit32" -> "next_fixed32"
      [] wire_type = "Bit64" -> "next_fixed64"

KeyOps == {"next_key", "peek_next_key", "skip_next_field"}
ValueOps == {"next_varint", "next_svarint", "next_fixed32", "next_fixed64",
             "next_bytes", "next_string", "next_embedded_message"}

\* C7: Eof is returned only at a clean key boundary.  next_key, peek_next_key
\* and skip_next_field return Eof exactly when the position is the buffer
\* length as the key is read; a buffer underrun behind a key, in a value
\* method or in skip_next_field, returns UnexpectedEof and never Eof.
C7_EofOnlyAtKeyBoundary ==
    /\ rlast.op \in KeyOps =>
          (rlast.res = "Eof" <=> rlast.pre.pos = Len(rlast.pre.buf))
    /\ rlast.op \in ValueOps =>
          /\ rlast.res # "Eof"
          /\ Underrun(rlast.op, rlast.pre) => rlast.res = "UnexpectedEof"
    /\ rlast.op = "skip_next_field" =>
          LET k == next_key(rlast.pre) IN
          (k.res = "Ok" /\ Underrun(ValueOp(k.val[2]), k.r))
              => rlast.res = "UnexpectedEof"

============================================================================
